---- MODULE Spec2Model ----
(***************************************************************************)
(* Model of alertbot.py: a page monitor that polls URLS_TO_MONITOR, keeps  *)
(* a SHA-256 fingerprint per URL in the module-level dict previous_hashes, *)
(* writes that dict to page_hashes.json, and sends Telegram messages.      *)
(*                                                                         *)
(* A page text is a sequence of tokens.  Token SENTINEL stands for the     *)
(* phrase tested on line 111; the other tokens 1..MaxBody stand for any    *)
(* other piece of page content.                                            *)
(***************************************************************************)
EXTENDS Integers, Sequences, FiniteSets, TLC

\* ---------------------------------------------------------------- bounds
MaxBody == 2
MaxClock == 130200

\* ------------------------------------------------------------- constants
SENTINEL == 0
CHECK_INTERVAL_SECONDS == 300
RECOVERY_SLEEP_SECONDS == 60
SECONDS_PER_DAY == 24 * 60 * 60

URLS_TO_MONITOR == <<"u1", "u2">>

\* "12:00" and "18:00" as their digit characters
NO_CHANGE_NOTIFICATION_TIMES == << <<1, 2, 0, 0>>, <<1, 8, 0, 0>> >>

NumUrls == Len(URLS_TO_MONITOR)

\* The page texts a fetch can return: with and without the sentinel phrase.
Texts == {<<b>> : b \in 1..MaxBody} \cup {<<b, SENTINEL>> : b \in 1..MaxBody}

NoText == <<>>

\* ---------------------------------------------------------- pure helpers
RECURSIVE Digest(_, _, _)
Digest(text, i, acc) ==
    IF i > Len(text) THEN acc
    ELSE Digest(text, i + 1, acc * (MaxBody + 2) + text[i] + 1)

\* hashlib.sha256(text.encode('utf-8')).hexdigest(): a deterministic digest,
\* collision-free on Texts (a positional encoding of the tokens).
calculate_hash(text) == Digest(text, 1, 0)

\* "Билеты появятся позже" in page_text
ContainsSentinel(text) == \E i \in 1..Len(text) : text[i] = SENTINEL

EmptyDict == [u \in {} |-> 0]

\* hashes[url] = h
DictSet(hashes, url, h) ==
    [u \in (DOMAIN hashes) \cup {url} |-> IF u = url THEN h ELSE hashes[u]]

\* The state file: absent, present with a JSON object, present but not
\* parseable (truncated or partly written), present with valid JSON that
\* is not an object (such as [] or null), or present but not readable as
\* text (no permission to read it, bytes that are not UTF-8).
AbsentFile == [state |-> "absent", data |-> EmptyDict]
CorruptFile == [state |-> "corrupt", data |-> EmptyDict]
UnreadableFile == [state |-> "unreadable", data |-> EmptyDict]
GoodFile(hashes) == [state |-> "ok", data |-> hashes]

\* the value json.load returns for the document []: a list, not a dict
NotADict == [k \in {"[]"} |-> 0]
NonObjectFile == [state |-> "nonobject", data |-> NotADict]

SaveOutcomes == {"ok", "openfail", "writefail"}

save_hashes_writes_nothing(f, hashes, outcome) == f

\* save_hashes: open(HASH_FILE, "w") truncates the file, json.dump writes
\* it; any exception is logged and swallowed.
save_hashes(f, hashes, outcome) ==
    CASE outcome = "ok" -> GoodFile(hashes)
      [] outcome = "openfail" -> f
      [] outcome = "writefail" -> CorruptFile

\* how save_hashes ends: lines 90-91 catch every Exception, so it returns
\* whether the write worked or not
save_hashes_propagates(outcome) ==
    IF outcome = "ok" THEN "returned" ELSE "raised"

save_hashes_ends(outcome) == "returned"

\* load_hashes: {} when the file is missing (FileNotFoundError) or is not
\* valid JSON (JSONDecodeError); otherwise whatever json.load returns
load_hashes(f) ==
    IF f.state \in {"ok", "nonobject"} THEN f.data ELSE EmptyDict

\* how load_hashes ends: lines 78-82 catch FileNotFoundError and
\* JSONDecodeError only; what open or the decoding raises for a file that
\* cannot be read (PermissionError, UnicodeDecodeError) leaves the function
load_hashes_ends(f) ==
    IF f.state = "unreadable" THEN "raised" ELSE "returned"

\* os.path.exists(HASH_FILE)
FileExists(f) == f.state # "absent"

\* ------------------------------------------------------------ dispatcher
\* how send_telegram_message ends when bot.send_message succeeds (ok) or
\* fails: lines 66-70 catch every Exception, so it always returns
send_telegram_message_propagates(ok) == IF ok THEN "returned" ELSE "raised"

send_telegram_message(ok) == "returned"

\* ------------------------------------------------------- change evaluator
\* lines 106-109: a url not yet in previous_hashes gets the current hash
FirstObservationNoStore(hashes, url, h) == hashes

FirstObservation(hashes, url, h) ==
    IF url \notin DOMAIN hashes THEN DictSet(hashes, url, h) ELSE hashes

\* lines 111, 116, 124: which branch of the if / elif / else runs
BranchDedupAvailability(text, hashes, url, h) ==
    IF ~ContainsSentinel(text)
    THEN IF url \in DOMAIN hashes /\ h # hashes[url] THEN "availability" ELSE "none"
    ELSE IF url \in DOMAIN hashes /\ h # hashes[url] THEN "changed" ELSE "none"

BranchAlwaysChanged(text, hashes, url, h) ==
    IF ~ContainsSentinel(text) THEN "availability"
    ELSE IF url \in DOMAIN hashes THEN "changed"
    ELSE "none"

Branch(text, hashes, url, h) ==
    IF ~ContainsSentinel(text) THEN "availability"
    ELSE IF url \in DOMAIN hashes /\ h # hashes[url] THEN "changed"
    ELSE "none"

\* lines 113 and 121: previous_hashes[url] = current_hash
UpdateStateOnlyAvailability(hashes, url, h, branch) ==
    IF branch = "availability" THEN DictSet(hashes, url, h) ELSE hashes

UpdateStateOnlyChanged(hashes, url, h, branch) ==
    IF branch = "changed" THEN DictSet(hashes, url, h) ELSE hashes

UpdateState(hashes, url, h, branch) ==
    IF branch \in {"availability", "changed"} THEN DictSet(hashes, url, h)
    ELSE hashes

\* the loop position after the body for URLS_TO_MONITOR[i] was left by
\* `continue` (line 104) or through the except clause (line 127)
AfterFailureBreak(i) == NumUrls + 1

AfterFailureRetry(i) == i

AfterFailure(i) == i + 1

\* ------------------------------------------------------------- heartbeat
\* datetime.datetime.strptime(time_str, "%H:%M").time()
strptime(s) == [hour |-> 10 * s[1] + s[2], minute |-> 10 * s[3] + s[4]]

\* line 178
TimeMatchesHourOnly(t, time_obj) == t.hour = time_obj.hour

TimeMatches(t, time_obj) ==
    t.hour = time_obj.hour /\ t.minute = time_obj.minute

\* lines 176-179: one message per matching entry, in list order
RECURSIVE HeartbeatMessages(_, _, _)
HeartbeatMessages(t, i, sendOk) ==
    IF i > Len(NO_CHANGE_NOTIFICATION_TIMES) THEN <<>>
    ELSE (IF TimeMatches(t, strptime(NO_CHANGE_NOTIFICATION_TIMES[i]))
          THEN <<[kind |-> "heartbeat", url |-> "", ok |-> sendOk]>>
          ELSE <<>>)
         \o HeartbeatMessages(t, i + 1, sendOk)

\* wall-clock readings the heartbeat check can see
NowSamples ==
    {[hour |-> 11, minute |-> 59], [hour |-> 12, minute |-> 0],
     [hour |-> 12, minute |-> 1], [hour |-> 18, minute |-> 0]}

\* ----------------------------------------------------------------- state
VARIABLES
    previous_hashes,       \* the module-level dict of line 41
    main_previous_hashes,  \* the name previous_hashes assigned inside main()
    file,                  \* page_hashes.json
    pc,                    \* where the process is
    idx,                   \* position in URLS_TO_MONITOR
    result,                \* page_text returned by check_page
    outbox,                \* messages passed to send_telegram_message by the last step
    saved,                 \* outcome of the last save_hashes call of the last step
    cycleLog,              \* per url: what this poll cycle did with it
    changedText,           \* the latest "changed" event: [at |-> position, text |-> page text]
    missed,                \* position of a change that a kill cut off before dispatch
    bootTexts,             \* per url: the text the initial collection fetched
    now,                   \* wall-clock time read by the heartbeat check
    clock,                 \* wall clock, seconds since midnight of day 0
    tpc,                   \* position in the timing view of the main loop
    fires,                 \* per schedule entry: heartbeats sent today
    landed                 \* per schedule entry: heartbeat checks in its minute today

vars == <<previous_hashes, main_previous_hashes, file, pc, idx, result,
          outbox, saved, cycleLog, changedText, missed, bootTexts, now,
          clock, tpc, fires, landed>>

timeVars == <<clock, tpc, fires, landed>>
pageVars == <<previous_hashes, main_previous_hashes, file, pc, idx, result,
              outbox, saved, cycleLog, changedText, missed, bootTexts,
              now>>

Url == URLS_TO_MONITOR[idx]

FreshLog == [i \in 1..NumUrls |-> "pending"]
NoTime == [hour |-> -1, minute |-> -1]
NoChange == [at |-> 0, text |-> NoText]
NoTexts == [i \in 1..NumUrls |-> NoText]
NoSlots == [i \in 1..Len(NO_CHANGE_NOTIFICATION_TIMES) |-> 0]

\* the state file at the very first start: none, or one that something
\* else left there and that cannot be read
FirstFiles == {AbsentFile, UnreadableFile}

Init ==
    /\ previous_hashes = EmptyDict
    /\ main_previous_hashes = EmptyDict
    /\ file \in FirstFiles
    /\ pc = "main"
    /\ idx = 1
    /\ result = NoText
    /\ outbox = <<>>
    /\ saved = "none"
    /\ cycleLog = FreshLog
    /\ changedText = NoChange
    /\ missed = 0
    /\ bootTexts = NoTexts
    /\ now = NoTime
    /\ clock = 0
    /\ tpc = "off"
    /\ fires = NoSlots
    /\ landed = NoSlots

\* ---------------------------------------------------------------- main()
\* lines 145-150: no state file, start the initial collection
StartBootstrap ==
    /\ pc = "main"
    /\ ~FileExists(file)
    /\ main_previous_hashes' = EmptyDict
    /\ pc' = "bootstrap"
    /\ idx' = 1
    /\ cycleLog' = FreshLog
    /\ bootTexts' = NoTexts
    /\ UNCHANGED <<previous_hashes, file, result, outbox, saved, changedText,
                   missed>>
    /\ UNCHANGED <<now, timeVars>>

\* lines 160-163: the state file exists, load it
StartLoad ==
    /\ pc = "main"
    /\ FileExists(file)
    /\ load_hashes_ends(file) = "returned"
    /\ main_previous_hashes' = load_hashes(file)
    /\ pc' = "loop"
    /\ UNCHANGED <<previous_hashes, file, idx, result, outbox, saved, cycleLog,
                   changedText, missed>>
    /\ UNCHANGED <<bootTexts, now, timeVars>>

\* line 162 raises: load_hashes let the exception through, the call stands
\* outside every try, so the exception leaves main() and the process ends
StartLoadFails ==
    /\ pc = "main"
    /\ FileExists(file)
    /\ load_hashes_ends(file) = "raised"
    /\ pc' = "dead"
    /\ UNCHANGED <<previous_hashes, main_previous_hashes, file, idx, result,
                   outbox, saved, cycleLog, changedText, missed>>
    /\ UNCHANGED <<bootTexts, now, timeVars>>

\* line 149 raises: aiohttp.ClientSession() of the initial collection stands
\* outside every try, so the exception leaves main() and the process ends
\* with nothing fetched and no file written
BootstrapSessionFails ==
    /\ pc = "bootstrap"
    /\ idx = 1
    /\ pc' = "dead"
    /\ main_previous_hashes' = EmptyDict
    /\ UNCHANGED <<previous_hashes, file, idx, result, outbox, saved, cycleLog,
                   changedText, missed>>
    /\ UNCHANGED <<bootTexts, now, timeVars>>

\* lines 153-154: the hash is recorded unless check_page returned None
BootstrapRecordUnguarded(hashes, url, fetched) ==
    DictSet(hashes, url, calculate_hash(fetched))

BootstrapRecord(hashes, url, fetched) ==
    IF fetched # NoText THEN DictSet(hashes, url, calculate_hash(fetched))
    ELSE hashes

\* lines 150-157: one url of the initial collection
BootstrapFetch ==
    /\ pc = "bootstrap"
    /\ \E fetched \in Texts \cup {NoText} :
           /\ main_previous_hashes' =
                  BootstrapRecord(main_previous_hashes, Url, fetched)
           /\ bootTexts' = [bootTexts EXCEPT ![idx] = fetched]
           /\ cycleLog' = [cycleLog EXCEPT ![idx] =
                              IF fetched # NoText THEN "fetched" ELSE "failed"]
    /\ IF idx < NumUrls
       THEN idx' = idx + 1 /\ pc' = pc
       ELSE idx' = 1 /\ pc' = "bootsave"
    /\ UNCHANGED <<previous_hashes, file, result, outbox, saved, changedText,
                   missed>>
    /\ UNCHANGED <<now, timeVars>>

\* line 158
BootstrapSave ==
    /\ pc = "bootsave"
    /\ \E outcome \in SaveOutcomes :
           /\ file' = save_hashes(file, main_previous_hashes, outcome)
           /\ saved' = outcome
           \* line 158 is outside every try: an exception would end main()
           /\ pc' = IF save_hashes_ends(outcome) = "returned" THEN "loop"
                    ELSE "dead"
    /\ UNCHANGED <<previous_hashes, main_previous_hashes, idx, result, outbox,
                   cycleLog, changedText, missed>>
    /\ UNCHANGED <<bootTexts, now, timeVars>>

\* lines 165-169: monitoring starts.  main() never reads its previous_hashes
\* from here on, so the model drops it.
EnterLoop ==
    /\ pc = "loop"
    /\ pc' = "check_page"
    /\ idx' = 1
    /\ main_previous_hashes' = EmptyDict
    /\ cycleLog' = FreshLog
    /\ saved' = "none"
    /\ bootTexts' = NoTexts
    /\ UNCHANGED <<previous_hashes, file, result, outbox, changedText, missed>>
    /\ UNCHANGED <<now, timeVars>>

\* ----------------------------------------------------- check_all_pages()
\* where the for loop of line 98 goes once the body for position i - 1 is over
Advance(i) ==
    IF i <= NumUrls
    THEN pc' = "check_page" /\ idx' = i
    ELSE pc' = "heartbeat" /\ idx' = 1

\* lines 96-97 and 129-130: aiohttp.ClientSession() raises before the for
\* loop starts; the outer except logs it and check_all_pages returns with no
\* url fetched, so control is at line 175
SessionFails ==
    /\ pc = "check_page"
    /\ idx = 1
    /\ pc' = "heartbeat"
    /\ result' = NoText
    /\ outbox' = <<>>
    /\ saved' = "none"
    /\ UNCHANGED <<previous_hashes, main_previous_hashes, file, idx, cycleLog,
                   changedText, missed>>
    /\ UNCHANGED <<bootTexts, now, timeVars>>

\* line 100, success: check_page returned (page_text, page_hash)
CheckPageOk ==
    /\ pc = "check_page"
    /\ \E text \in Texts : result' = text
    /\ pc' = "evaluate"
    /\ outbox' = <<>>
    /\ saved' = "none"
    /\ UNCHANGED <<previous_hashes, main_previous_hashes, file, idx, cycleLog,
                   changedText, missed>>
    /\ UNCHANGED <<bootTexts, now, timeVars>>

\* line 100, failure: check_page returned (None, None) after a ClientError
\* (lines 59-61, then 102-104), or raised another exception (line 127)
CheckPageFail ==
    /\ pc = "check_page"
    /\ cycleLog' = [cycleLog EXCEPT ![idx] = "failed"]
    /\ Advance(AfterFailure(idx))
    /\ result' = NoText
    /\ outbox' = <<>>
    /\ saved' = "none"
    /\ UNCHANGED <<previous_hashes, main_previous_hashes, file, changedText,
                   missed>>
    /\ UNCHANGED <<bootTexts, now, timeVars>>

\* lines 106-111, 116 and 124 for the url just fetched: the first
\* observation with its save, and the choice of the branch.  With a message
\* to send the pass is suspended in the await of line 112 / 120; with none
\* (line 124) it is over.
Evaluate ==
    /\ pc = "evaluate"
    /\ LET current_hash == calculate_hash(result)
           first == Url \notin DOMAIN previous_hashes
           h1 == FirstObservation(previous_hashes, Url, current_hash)
       IN
       \* the outcome of the save of line 109
       \E out1 \in IF first THEN SaveOutcomes ELSE {"none"} :
         \* an exception out of line 109 would end the pass in the except
         \* clause of line 127
         LET reached == ~first \/ save_hashes_ends(out1) = "returned"
             branch == IF reached THEN Branch(result, h1, Url, current_hash)
                       ELSE "none"
         IN  /\ previous_hashes' = h1
             /\ file' = IF first THEN save_hashes(file, h1, out1) ELSE file
             /\ saved' = out1
             /\ outbox' = <<>>
             /\ IF branch = "none"
                THEN /\ cycleLog' = [cycleLog EXCEPT ![idx] =
                                        IF first THEN "first" ELSE "none"]
                     /\ changedText' = IF changedText.at = idx THEN NoChange
                                       ELSE changedText
                     /\ missed' = IF missed = idx THEN 0 ELSE missed
                     /\ Advance(idx + 1)
                     /\ result' = NoText
                ELSE /\ cycleLog' = [cycleLog EXCEPT ![idx] =
                                        IF first THEN "first" ELSE @]
                     /\ pc' = "dispatch"
                     /\ UNCHANGED <<idx, result, changedText, missed>>
    /\ UNCHANGED main_previous_hashes
    /\ UNCHANGED <<bootTexts, now, timeVars>>

\* the await of line 112 / 120 ends, then lines 113-114 / 121-122
Dispatch ==
    /\ pc = "dispatch"
    /\ LET current_hash == calculate_hash(result)
           branch == Branch(result, previous_hashes, Url, current_hash)
           h2 == UpdateState(previous_hashes, Url, current_hash, branch)
       IN
       \E sendOk \in BOOLEAN :
         \* an exception out of lines 112 / 120 would skip the assignment
         \* and the save and end in the except clause of line 127
         LET updates == send_telegram_message(sendOk) = "returned"
         IN
         \* the outcome of the save of line 114 / 122
         \E out2 \in IF updates THEN SaveOutcomes ELSE {"none"} :
             /\ previous_hashes' = IF updates THEN h2 ELSE previous_hashes
             /\ file' = IF updates THEN save_hashes(file, h2, out2) ELSE file
             /\ saved' = IF updates THEN out2 ELSE saved
             /\ outbox' = <<[kind |-> branch, url |-> Url, ok |-> sendOk]>>
             /\ cycleLog' = [cycleLog EXCEPT ![idx] =
                                IF @ = "first" THEN @ ELSE branch]
             /\ changedText' =
                    IF branch = "changed" THEN [at |-> idx, text |-> result]
                    ELSE IF changedText.at = idx THEN NoChange
                    ELSE changedText
    /\ missed' = IF missed = idx THEN 0 ELSE missed
    /\ Advance(idx + 1)
    /\ result' = NoText
    /\ UNCHANGED main_previous_hashes
    /\ UNCHANGED <<bootTexts, now, timeVars>>

\* lines 175-179: the heartbeat check after the poll cycle
Heartbeat ==
    /\ pc = "heartbeat"
    /\ \E reading \in NowSamples, sendOk \in BOOLEAN :
           /\ now' = reading
           /\ outbox' = HeartbeatMessages(reading, 1, sendOk)
    /\ pc' = "sleep"
    /\ saved' = "none"
    /\ UNCHANGED <<previous_hashes, main_previous_hashes, file, idx, result,
                   cycleLog, changedText, missed, bootTexts>>
    /\ UNCHANGED timeVars

\* line 181, then the next iteration of while True
Sleep ==
    /\ pc = "sleep"
    /\ pc' = "check_page"
    /\ idx' = 1
    /\ cycleLog' = FreshLog
    /\ outbox' = <<>>
    /\ now' = NoTime
    /\ UNCHANGED <<previous_hashes, main_previous_hashes, file, result, saved,
                   changedText, missed, bootTexts>>
    /\ UNCHANGED timeVars

\* where control goes when an Exception leaves the try body of lines
\* 170-181: the except clause of line 183, inside while True
OnLoopException == "recover"

\* lines 183-184: an Exception raised by lines 175-181 is caught and logged.
\* check_all_pages catches its own (line 127: CheckPageFail; line 129:
\* SessionFails), so nothing escapes from the pass over the urls.
LoopException ==
    /\ pc \in {"heartbeat", "sleep"}
    /\ pc' = OnLoopException
    /\ idx' = 1
    /\ cycleLog' = FreshLog
    /\ outbox' = <<>>
    /\ now' = NoTime
    /\ UNCHANGED <<previous_hashes, main_previous_hashes, file, result, saved,
                   changedText, missed, bootTexts>>
    /\ UNCHANGED timeVars

\* line 185 returns, then the next iteration of while True
Recover ==
    /\ pc = "recover"
    /\ pc' = "check_page"
    /\ UNCHANGED <<previous_hashes, main_previous_hashes, file, idx, result,
                   outbox, saved, cycleLog, changedText, missed>>
    /\ UNCHANGED <<bootTexts, now, timeVars>>

\* line 185 raises: the await stands in the except clause, outside every
\* try, so the exception leaves while True and main(), and the process ends
RecoverFails ==
    /\ pc = "recover"
    /\ pc' = "dead"
    /\ previous_hashes' = EmptyDict
    /\ main_previous_hashes' = EmptyDict
    /\ idx' = 1
    /\ result' = NoText
    /\ outbox' = <<>>
    /\ saved' = "none"
    /\ cycleLog' = FreshLog
    /\ changedText' = NoChange
    /\ now' = NoTime
    /\ bootTexts' = NoTexts
    /\ UNCHANGED <<file, missed>>
    /\ UNCHANGED timeVars

\* ------------------------------------------------------ process lifetime
\* lines 111 and 116 for the url just fetched: the "changed" branch is the
\* one this pass will take, and its message has not been sent yet
ChangePending ==
    /\ pc \in {"evaluate", "dispatch"}
    /\ ContainsSentinel(result)
    /\ Url \in DOMAIN previous_hashes
    /\ previous_hashes[Url] # calculate_hash(result)

\* the process is killed; everything but the file is lost
Crash ==
    /\ pc # "dead"
    /\ pc' = "dead"
    \* a kill at pc = "dispatch" falls before bot.send_message of line 67
    \* has delivered the message, or after it and before open() of line 88
    /\ missed' \in
          IF ~ChangePending THEN {missed}
          ELSE IF pc = "dispatch"
          THEN {idx, IF missed = idx THEN 0 ELSE missed}
          ELSE {idx}
    /\ previous_hashes' = EmptyDict
    /\ main_previous_hashes' = EmptyDict
    /\ idx' = 1
    /\ result' = NoText
    /\ outbox' = <<>>
    /\ saved' = "none"
    /\ cycleLog' = FreshLog
    /\ changedText' = NoChange
    /\ now' = NoTime
    /\ bootTexts' = NoTexts
    /\ UNCHANGED file
    /\ UNCHANGED timeVars

\* the process is about to call save_hashes: line 158, line 109, or line
\* 114 / 122
AtSave ==
    \/ pc = "bootsave"
    \/ pc = "evaluate" /\ Url \notin DOMAIN previous_hashes
    \/ pc = "dispatch"

\* the file when the process dies inside save_hashes: open(HASH_FILE, "w")
\* of line 88 has emptied it, json.dump of line 89 has written at most a part
killed_save(f) == CorruptFile

\* the process is killed while save_hashes is writing
KillDuringSave ==
    /\ AtSave
    /\ file' = killed_save(file)
    /\ pc' = "dead"
    /\ previous_hashes' = EmptyDict
    /\ main_previous_hashes' = EmptyDict
    /\ idx' = 1
    /\ result' = NoText
    /\ outbox' = <<>>
    /\ saved' = "none"
    /\ cycleLog' = FreshLog
    /\ changedText' = NoChange
    /\ now' = NoTime
    /\ bootTexts' = NoTexts
    /\ UNCHANGED missed
    /\ UNCHANGED timeVars

\* the supervisor starts the script again: line 41 runs, then main()
Restart ==
    /\ pc = "dead"
    /\ pc' = "main"
    /\ previous_hashes' = EmptyDict
    /\ UNCHANGED <<main_previous_hashes, file, idx, result, outbox, saved,
                   cycleLog, changedText, missed>>
    /\ UNCHANGED <<bootTexts, now, timeVars>>

Next ==
    \/ StartBootstrap
    \/ StartLoad
    \/ StartLoadFails
    \/ BootstrapSessionFails
    \/ BootstrapFetch
    \/ BootstrapSave
    \/ EnterLoop
    \/ SessionFails
    \/ CheckPageOk
    \/ CheckPageFail
    \/ Evaluate
    \/ Dispatch
    \/ Heartbeat
    \/ Sleep
    \/ LoopException
    \/ Recover
    \/ RecoverFails
    \/ Crash
    \/ KillDuringSave
    \/ Restart

Spec == Init /\ [][Next]_vars

\* ------------------------------------------- start on any state file
\* The same program started with a page_hashes.json it did not write in
\* this run: none, any mapping, an unparseable one, a non-object one, or an
\* unreadable one.
Hashes == {calculate_hash(t) : t \in Texts}

StartFiles ==
    {AbsentFile, CorruptFile, NonObjectFile, UnreadableFile}
        \cup {GoodFile(m) : m \in UNION {[S -> Hashes] :
                  S \in SUBSET {URLS_TO_MONITOR[i] : i \in 1..NumUrls}}}

InitLoad ==
    /\ previous_hashes = EmptyDict
    /\ main_previous_hashes = EmptyDict
    /\ file \in StartFiles
    /\ pc = "main"
    /\ idx = 1
    /\ result = NoText
    /\ outbox = <<>>
    /\ saved = "none"
    /\ cycleLog = FreshLog
    /\ changedText = NoChange
    /\ missed = 0
    /\ bootTexts = NoTexts
    /\ now = NoTime
    /\ clock = 0
    /\ tpc = "off"
    /\ fires = NoSlots
    /\ landed = NoSlots

SpecLoad == InitLoad /\ [][Next]_vars

\* the process while nobody kills it: it ends only by an exception that
\* leaves main() (lines 149, 162 and 185)
NextLive ==
    \/ StartBootstrap
    \/ StartLoad
    \/ StartLoadFails
    \/ BootstrapSessionFails
    \/ BootstrapFetch
    \/ BootstrapSave
    \/ EnterLoop
    \/ SessionFails
    \/ CheckPageOk
    \/ CheckPageFail
    \/ Evaluate
    \/ Dispatch
    \/ Heartbeat
    \/ Sleep
    \/ LoopException
    \/ Recover
    \/ RecoverFails

\* the start of a run that is not killed: no file (lines 145-158), or a
\* file to load (lines 160-163)
LiveStartFiles == {AbsentFile, CorruptFile, UnreadableFile}

InitLive == InitLoad /\ file \in LiveStartFiles

\* a running process takes its next step: every await of the loop returns
\* or raises
SpecLive == InitLive /\ [][NextLive]_vars /\ WF_vars(NextLive)

\* ------------------------------------------------- timing of the main loop
\* The while True loop of lines 169-185 seen through the clock alone: a poll
\* cycle that takes some time, the heartbeat check, the sleep, and the
\* recovery sleep of the except clause.

\* seconds a poll cycle can take
CycleDurations == {0, 20}

\* wall-clock times at which monitoring can start: 11:59:40 and 12:00:00
StartClocks == {11 * 3600 + 59 * 60 + 40, 12 * 3600}

\* datetime.datetime.now(moscow_tz).time(), line 175
WallClock(c) ==
    LET s == c % SECONDS_PER_DAY
    IN  [hour |-> s \div 3600, minute |-> (s % 3600) \div 60]

\* the clock after `await asyncio.sleep(CHECK_INTERVAL_SECONDS)`, line 181
AfterSleepShort(c) == c + 30

AfterSleep(c) == c + CHECK_INTERVAL_SECONDS

\* the clock after `await asyncio.sleep(60)`, line 185
AfterRecovery(c) == c + RECOVERY_SLEEP_SECONDS

Day(c) == c \div SECONDS_PER_DAY

\* schedule entry i names the minute that holds second-of-day s
InMinuteOf(i, c) ==
    LET s == c % SECONDS_PER_DAY
        t == NO_CHANGE_NOTIFICATION_TIMES[i]
        start == (10 * t[1] + t[2]) * 3600 + (10 * t[3] + t[4]) * 60
    IN  start <= s /\ s < start + 60

\* the per-day counters start again at midnight
AdvanceClock(c) ==
    /\ c <= MaxClock
    /\ clock' = c
    /\ IF Day(c) > Day(clock)
       THEN fires' = NoSlots /\ landed' = NoSlots
       ELSE UNCHANGED <<fires, landed>>

InitClock ==
    /\ previous_hashes = EmptyDict
    /\ main_previous_hashes = EmptyDict
    /\ file = AbsentFile
    /\ pc = "main"
    /\ idx = 1
    /\ result = NoText
    /\ outbox = <<>>
    /\ saved = "none"
    /\ cycleLog = FreshLog
    /\ changedText = NoChange
    /\ missed = 0
    /\ bootTexts = NoTexts
    /\ now = NoTime
    /\ clock \in StartClocks
    /\ tpc = "cycle"
    /\ fires = NoSlots
    /\ landed = NoSlots

\* line 172: check_all_pages() runs for some time
TickCycle ==
    /\ tpc = "cycle"
    /\ \E d \in CycleDurations : AdvanceClock(clock + d)
    /\ tpc' = "heartbeat"
    /\ UNCHANGED pageVars

\* lines 175-179
TickHeartbeat ==
    /\ tpc = "heartbeat"
    /\ fires' = [i \in DOMAIN fires |->
                    IF TimeMatches(WallClock(clock),
                                   strptime(NO_CHANGE_NOTIFICATION_TIMES[i]))
                    THEN fires[i] + 1 ELSE fires[i]]
    /\ landed' = [i \in DOMAIN landed |->
                    IF InMinuteOf(i, clock) THEN landed[i] + 1 ELSE landed[i]]
    /\ tpc' = "sleep"
    /\ UNCHANGED clock
    /\ UNCHANGED pageVars

\* line 181
TickSleep ==
    /\ tpc = "sleep"
    /\ AdvanceClock(AfterSleep(clock))
    /\ tpc' = "cycle"
    /\ UNCHANGED pageVars

\* lines 183-185: an exception left the loop body
TickRecover ==
    /\ tpc \in {"cycle", "heartbeat", "sleep"}
    /\ AdvanceClock(AfterRecovery(clock))
    /\ tpc' = "cycle"
    /\ UNCHANGED pageVars

NextClock ==
    \/ TickCycle
    \/ TickHeartbeat
    \/ TickSleep
    \/ TickRecover

SpecClock == InitClock /\ [][NextClock]_vars

\* ---------------------------------------------------------------- claims
\* an Evaluate step: the process was at lines 106-125 and was not killed
\* a step of the evaluator's pass over the url fetched
PassStep == pc \in {"evaluate", "dispatch"} /\ pc' # "dead"

\* the step that ends the pass: the loop goes on to the next url or to the
\* heartbeat check
Evaluated == PassStep /\ pc' # "dispatch"

\* the url was in the dict when the pass began
InStore ==
    IF pc = "dispatch" THEN cycleLog[idx] # "first"
    ELSE Url \in DOMAIN previous_hashes

CurrentHash == calculate_hash(result)

\* the step sent exactly one message, of this kind, about the url evaluated
SentOne(kind) ==
    /\ Len(outbox') = 1
    /\ outbox'[1].kind = kind
    /\ outbox'[1].url = Url

StoredCurrent ==
    /\ Url \in DOMAIN previous_hashes'
    /\ previous_hashes'[Url] = CurrentHash

\* C1 as stated: a url that is not yet in previous_hashes gets its hash
\* stored and no message of any kind is sent for it in that cycle, also
\* when the text lacks the sentinel phrase.
C1_FirstObservationSilent ==
    [][(Evaluated /\ ~InStore) => (StoredCurrent /\ outbox' = <<>>)]_vars

\* C1 amended: a url that is not yet in previous_hashes gets its hash stored
\* and never a "changed" message; an "availability" message is sent for it
\* exactly when the text lacks the sentinel phrase.
C1_FirstObservation ==
    [][(Evaluated /\ ~InStore) =>
          /\ StoredCurrent
          /\ IF ContainsSentinel(result) THEN outbox' = <<>>
             ELSE SentOne("availability")]_vars

C1_Witness ==
    \E i \in 1..NumUrls :
        /\ cycleLog[i] = "first"
        /\ Len(outbox) = 1
        /\ outbox[1].kind = "availability"
        /\ outbox[1].url = URLS_TO_MONITOR[i]

\* C2: when the first poll cycle is about to start, the dict that the
\* change evaluator reads equals the mapping main() loaded or collected.
C2_StoreLoadedAtStart ==
    pc = "loop" => previous_hashes = main_previous_hashes

\* C3: a change (sentinel present, hash differs from the persisted one)
\* that a crash cut off before its message was sent is notified as
\* "changed" by the next evaluation of that url after the restart, if the
\* text still differs from the persisted hash.
C3_ChangeRenotifiedAfterCrash ==
    [][(/\ Evaluated
        /\ missed = idx
        /\ ContainsSentinel(result)
        /\ file.state = "ok"
        /\ Url \in DOMAIN file.data
        /\ file.data[Url] # CurrentHash)
       => \E k \in 1..Len(outbox') :
              outbox'[k].kind = "changed" /\ outbox'[k].url = Url]_vars

\* C4: for a "changed" event (url in the store, sentinel present, hash
\* different from the stored one) the persisted hash of the url moves to a
\* different value only in a step that delivered a "changed" message for
\* that url.
C4_PersistAfterDispatch ==
    [][(/\ Evaluated
        /\ InStore
        /\ ContainsSentinel(result)
        /\ previous_hashes[Url] # CurrentHash
        /\ file.state = "ok" /\ file'.state = "ok"
        /\ Url \in DOMAIN file.data /\ Url \in DOMAIN file'.data
        /\ file'.data[Url] # file.data[Url])
       => \E k \in 1..Len(outbox') :
              /\ outbox'[k].kind = "changed"
              /\ outbox'[k].url = Url
              /\ outbox'[k].ok]_vars

\* C5: for a url in the store, sentinel present and hash different from the
\* stored one: exactly one "changed" message and the store entry becomes
\* the new hash; the next evaluation of the url with the same text sends
\* nothing.
C5_ChangedOnceThenQuiet ==
    [][Evaluated =>
          /\ (InStore /\ ContainsSentinel(result)
                /\ previous_hashes[Url] # CurrentHash)
             => (SentOne("changed") /\ StoredCurrent)
          /\ (changedText.at = idx /\ changedText.text = result)
             => outbox' = <<>>]_vars

C5_Witness ==
    /\ pc = "evaluate"
    /\ changedText.at = idx
    /\ changedText.text = result

\* C6: for a url in the store, sentinel present and hash equal to the stored
\* one: no message, no save, the dict and the file stay as they are.
C6_NoChangeNoOp ==
    [][(Evaluated /\ InStore /\ ContainsSentinel(result)
          /\ previous_hashes[Url] = CurrentHash)
       => /\ outbox' = <<>>
          /\ saved' = "none"
          /\ previous_hashes' = previous_hashes
          /\ file' = file]_vars

C6_Witness ==
    \E i \in 1..NumUrls :
        /\ cycleLog[i] = "none"
        /\ URLS_TO_MONITOR[i] \in DOMAIN previous_hashes
        /\ file.state = "ok"

\* C7: for a url in the store, a text without the sentinel: exactly one
\* "availability" message (no "changed" one), the current hash is stored
\* and save_hashes is called with the dict, so that the file holds the
\* current hash when the write succeeds - whether the hash differs from
\* the stored one or not.
C7_AvailabilityEveryCycle ==
    [][(Evaluated /\ InStore /\ ~ContainsSentinel(result))
       => /\ SentOne("availability")
          /\ StoredCurrent
          /\ saved' # "none"
          /\ saved' = "ok" =>
                /\ file' = GoodFile(previous_hashes')
                /\ file'.data[Url] = CurrentHash]_vars

C7_Witness ==
    \E i \in 1..NumUrls :
        /\ cycleLog[i] = "availability"
        /\ saved = "ok"
        /\ Len(outbox) = 1
        /\ outbox[1].kind = "availability"
        /\ outbox[1].url = URLS_TO_MONITOR[i]
        /\ file.data[URLS_TO_MONITOR[i]] = previous_hashes[URLS_TO_MONITOR[i]]

C9_HeartbeatCount ==
    pc = "sleep" =>
        /\ Len(outbox) =
              Cardinality({i \in 1..Len(NO_CHANGE_NOTIFICATION_TIMES) :
                  /\ now.hour = strptime(NO_CHANGE_NOTIFICATION_TIMES[i]).hour
                  /\ now.minute = strptime(NO_CHANGE_NOTIFICATION_TIMES[i]).minute})
        /\ \A k \in 1..Len(outbox) : outbox[k].kind = "heartbeat"

C9_Witness ==
    /\ pc = "sleep"
    /\ Len(outbox) = 1
    /\ \E i \in 1..NumUrls : cycleLog[i] = "failed"
    /\ \E i \in 1..NumUrls : cycleLog[i] \in {"changed", "availability"}

\* C10: within one run of the loop a schedule entry fires at most once a
\* day, and not at all on a day on which no heartbeat check fell in its
\* minute.
C10_HeartbeatOncePerDay ==
    \A i \in DOMAIN fires :
        /\ fires[i] <= 1
        /\ landed[i] = 0 => fires[i] = 0

\* noon fired, and the 18:00 minute went by without a check in it
C10_Witness ==
    /\ Day(clock) = 0
    /\ fires[1] = 1
    /\ fires[2] = 0
    /\ clock % SECONDS_PER_DAY > 18 * 3600 + 60

\* C11: a kill during save_hashes leaves the file as it was or holding a
\* complete mapping, never an empty or partly written document.
C11_SaveAtomicUnderKill ==
    [][(AtSave /\ pc' = "dead") => (file' = file \/ file'.state = "ok")]_vars

\* C12: every pass of the evaluator that changes the dict calls save_hashes,
\* and when that write succeeds the file equals the dict before the next
\* url is taken up.
C12_WriteThrough ==
    [][PassStep =>
          /\ previous_hashes' # previous_hashes => saved' # "none"
          /\ saved' = "ok" => file' = GoodFile(previous_hashes')]_vars

C12_Witness ==
    /\ pc = "check_page"
    /\ idx = 2
    /\ cycleLog[1] = "changed"
    /\ saved = "ok"
    /\ file = GoodFile(previous_hashes)

\* the mapping the initial collection has to write: every url whose fetch
\* succeeded, with the hash of the text fetched
BootExpected ==
    [u \in {URLS_TO_MONITOR[i] : i \in {j \in 1..NumUrls : cycleLog[j] = "fetched"}}
        |-> calculate_hash(
                bootTexts[CHOOSE i \in 1..NumUrls : URLS_TO_MONITOR[i] = u])]

\* C13: with no state file at start every url is fetched once, nothing is
\* sent and nothing is written during the collection, and the one save at
\* its end writes the mapping of the urls fetched successfully to their
\* hashes.
C13_Bootstrap ==
    /\ pc \in {"bootstrap", "bootsave"} =>
          /\ outbox = <<>>
          /\ saved = "none"
          /\ file = AbsentFile
    /\ pc = "bootsave" => \A i \in 1..NumUrls : cycleLog[i] # "pending"
    /\ (pc = "loop" /\ \A i \in 1..NumUrls : cycleLog[i] # "pending") =>
          /\ outbox = <<>>
          /\ saved # "none"
          /\ saved = "ok" => file = GoodFile(BootExpected)

C13_Witness ==
    /\ pc = "loop"
    /\ cycleLog[1] = "failed"
    /\ cycleLog[2] = "fetched"
    /\ saved = "ok"
    /\ DOMAIN file.data = {URLS_TO_MONITOR[2]}

\* the process has just loaded the state file (lines 160-163)
JustLoaded == pc = "loop" /\ \A i \in 1..NumUrls : cycleLog[i] = "pending"

\* C14: load_hashes yields the file's mapping when the file holds one, and
\* the empty mapping when the file is absent or holds anything else.
C14_LoadAlwaysMapping ==
    JustLoaded =>
        main_previous_hashes = IF file.state = "ok" THEN file.data ELSE EmptyDict

\* C15: when the delivery of a message fails, the evaluator still stores the
\* current hash and calls save_hashes, and the loop goes on to the next url
\* (or to the heartbeat check after the last one).
C15_DispatchFailureNotFatal ==
    [][(pc = "dispatch" /\ outbox' # <<>> /\ ~outbox'[1].ok) =>
          /\ StoredCurrent
          /\ saved' # "none"
          /\ saved' = "ok" => file' = GoodFile(previous_hashes')
          /\ IF idx < NumUrls
             THEN pc' = "check_page" /\ idx' = idx + 1
             ELSE pc' = "heartbeat"]_vars

C15_Witness ==
    /\ pc = "check_page"
    /\ idx = 2
    /\ Len(outbox) = 1
    /\ outbox[1].kind = "changed"
    /\ ~outbox[1].ok
    /\ changedText.at = 1
    /\ previous_hashes[URLS_TO_MONITOR[1]] = calculate_hash(changedText.text)
    /\ file = GoodFile(previous_hashes)

SaveFailed == saved' \in {"openfail", "writefail"}

\* C16: a failed write does not stop the pass or the process and leaves the
\* dict updated; the notification of the pass is still sent; a decision on
\* a url whose file entry is stale is taken on the dict; and a later write
\* that succeeds carries every entry the dict held, saved before or not.
C16_SaveFailureKeepsMemory ==
    [][/\ (pc = "evaluate" /\ SaveFailed) =>
             /\ StoredCurrent
             /\ IF ~ContainsSentinel(result) THEN pc' = "dispatch"
                ELSE IF idx < NumUrls
                THEN pc' = "check_page" /\ idx' = idx + 1
                ELSE pc' = "heartbeat"
       /\ (pc = "dispatch" /\ pc' # "dead"
             /\ (saved \in {"openfail", "writefail"} \/ SaveFailed)) =>
             /\ StoredCurrent
             /\ SentOne(IF ContainsSentinel(result) THEN "changed"
                        ELSE "availability")
             /\ IF idx < NumUrls
                THEN pc' = "check_page" /\ idx' = idx + 1
                ELSE pc' = "heartbeat"
       /\ (pc = "bootsave" /\ SaveFailed) => pc' = "loop"
       /\ (Evaluated /\ InStore /\ ContainsSentinel(result)
             /\ previous_hashes[Url] = CurrentHash
             /\ file # GoodFile(previous_hashes))
          => (outbox' = <<>> /\ previous_hashes' = previous_hashes)
       /\ (PassStep /\ saved' = "ok") =>
             \A u \in DOMAIN previous_hashes \ {Url} :
                 /\ u \in DOMAIN file'.data
                 /\ file'.data[u] = previous_hashes[u]]_vars

\* the write for the first url failed and the loop has gone on
C16_Witness ==
    /\ pc = "check_page"
    /\ idx = 2
    /\ saved \in {"openfail", "writefail"}
    /\ cycleLog[1] = "changed"
    /\ changedText.at = 1
    /\ previous_hashes[URLS_TO_MONITOR[1]] = calculate_hash(changedText.text)
    /\ file # GoodFile(previous_hashes)

CycleStarts == pc = "check_page" /\ idx = 1

\* the loop of line 169 has run a cycle body to its end, or an exception
\* has left the body and was caught at line 183
CycleOver == pc \in {"heartbeat", "sleep", "recover"}

\* C17: the steady-state loop does not end on an error: whenever a cycle
\* body is over, the recovery sleep after an exception that left the body
\* included, another poll cycle starts; so poll cycles start again and again.
C17_LoopNeverTerminates == CycleOver ~> CycleStarts

\* C18: a write made for one url leaves the entry the file holds for every
\* other url in place, with the value it had or with the value the dict
\* held for it.
C18_WriteKeepsOtherEntries ==
    [][(PassStep /\ file.state = "ok" /\ file'.state = "ok")
       => \A u \in DOMAIN file.data \ {Url} :
              /\ u \in DOMAIN file'.data
              /\ \/ file'.data[u] = file.data[u]
                 \/ /\ u \in DOMAIN previous_hashes
                    /\ file'.data[u] = previous_hashes[u]]_vars

\* C19: a url whose fetch fails is skipped for the cycle: no message, the
\* dict and the file as they were, no write, and the loop goes on to the next
\* url; no url is fetched a second time in one cycle.
C19_FailedFetchSkipped ==
    [][/\ (pc = "check_page" /\ cycleLog'[idx] = "failed") =>
             /\ outbox' = <<>>
             /\ previous_hashes' = previous_hashes
             /\ file' = file
             /\ saved' = "none"
             /\ IF idx < NumUrls
                THEN pc' = "check_page" /\ idx' = idx + 1
                ELSE pc' = "heartbeat"
       /\ pc' = "check_page" => cycleLog'[idx'] = "pending"]_vars

\* the fetch of the first url failed in a process that holds hashes
C19_Witness ==
    /\ pc = "check_page"
    /\ idx = 2
    /\ cycleLog[1] = "failed"
    /\ previous_hashes # EmptyDict

\* C20: when the evaluation of a url whose fetch succeeded is over, the dict
\* holds for it the hash of the text fetched, whichever branch ran.
C20_StoreTracksLatest ==
    [][Evaluated => StoredCurrent]_vars

\* every branch has run in one process: a first observation, then for the
\* same url a change, and for the other an availability message
C20_Witness ==
    /\ pc = "heartbeat"
    /\ cycleLog[1] = "changed"
    /\ cycleLog[2] \in {"availability", "none"}
    /\ changedText.at = 1
    /\ \A i \in 1..NumUrls : URLS_TO_MONITOR[i] \in DOMAIN previous_hashes
    /\ previous_hashes[URLS_TO_MONITOR[1]] = calculate_hash(changedText.text)

====
